---- MODULE Spec2Model ----
(***************************************************************************)
(* Model of healthcare-data-analysis.py: a batch script that reads the     *)
(* CSV extract named by the date cursor of config.properties, validates    *)
(* and cleans it (data_quality_check), appends the raw rows, the cleaning  *)
(* report and five aggregates to MongoDB collections, and advances the     *)
(* cursor by one day.                                                      *)
(*                                                                         *)
(* Data representation.  A nullable cell is a sequence of length at most   *)
(* one: None is SQL NULL, Some(v) a value.  A raw age cell holds the       *)
(* number in tenths (the CSV text "45.5" is 455), so that cast(age as int) *)
(* is a real conversion.  A diagnosis_date cell is a timestamp, held as    *)
(* the number of days since 1970-01-01.  A double (the median) is held as  *)
(* twice its value.  A DataFrame is its set of column names and its rows.  *)
(***************************************************************************)
EXTENDS Bags, FiniteSets, Integers, Sequences, TLC

VARIABLES
    pc,           \* position of the script in its try block ("idle": not running)
    runs,         \* number of invocations started so far
    config,       \* file_date of the in-memory ConfigParser of the running script
    config_file,  \* file_date persisted in config.properties
    files,        \* the CSV directory: file_date digits -> DataFrame or NoFile
    db,           \* healthcare_db: collection name -> bag of documents
    writes,       \* history: collection name -> sequence of the batches saved to it
    raw_data_df,  \* local raw_data_df of the main block
    list_info,    \* local list_info of the main block: <<cleaned rows, report>>
    exc_type      \* type(e).__name__ printed by the except block ("" when none)

vars == <<pc, runs, config, config_file, files, db, writes, raw_data_df, list_info, exc_type>>

----------------------------------------------------------------------------
(* Bounds of the model. *)

MaxRuns == 2
MaxFileRows == 3
MaxRowsDQ == 4
MaxRowsAgg == 4

----------------------------------------------------------------------------
(* Cells, rows and tables. *)

None == <<>>

Some(v) == <<v>>

Range(s) == {s[i] : i \in DOMAIN s}

Row(p, a, g, c, ds, dt) ==
    [patient_id |-> p, age |-> a, gender |-> g, diagnosis_code |-> c,
     diagnosis_description |-> ds, diagnosis_date |-> dt]

SeqToBag(s) == [r \in Range(s) |-> Cardinality({i \in DOMAIN s : s[i] = r})]

RECURSIVE SumOver(_, _)
SumOver(f, S) ==
    IF S = {} THEN 0
    ELSE LET x == CHOOSE y \in S : TRUE IN f[x] + SumOver(f, S \ {x})

BagSize(b) == SumOver(b, DOMAIN b)

database_name == "healthcare_db"

collection_name == "healthcare_raw_data"

mandatory_fields ==
    <<"patient_id", "age", "gender", "diagnosis_code", "diagnosis_description",
      "diagnosis_date">>

----------------------------------------------------------------------------
(* data_quality_check *)

\* a variant of the check below that finds no column missing
FirstMissingLax(columns) == None

\* lines 54-59: the first mandatory column absent from the frame (the loop
\* raises at it), or None

FirstMissing(columns) ==
    LET absent == {i \in DOMAIN mandatory_fields : mandatory_fields[i] \notin columns}
    IN IF absent = {} THEN None
       ELSE Some(mandatory_fields[CHOOSE i \in absent : \A j \in absent : i <= j])

\* cast(age as int) of a cell held in tenths: Spark truncates the fraction
CastInt(cell) == IF cell = None THEN None ELSE Some(cell[1] \div 10)

\* cast(<double> as int) of a double held as twice its value
CastDoubleToInt(twice) == twice \div 2

\* cast(<string> as timestamp): NULL unless the text is a timestamp literal
\* ("2023" is the literal of 2023-01-01, day 19358)
CastStringToTimestamp(s) == IF s = "2023" THEN Some(19358) ELSE None

\* lines 64-70: the casts of the selectExpr, column by column
Coerce(rows) == [i \in DOMAIN rows |-> [rows[i] EXCEPT !.age = CastInt(@)]]

\* a variant of the count below with the threshold 1
DuplicateRecordsOverOne(rows) ==
    Cardinality({r \in Range(rows) :
                    Cardinality({j \in DOMAIN rows : rows[j] = r}) > 1})

\* line 74: groupBy(mandatory_fields).count().filter(count > 2).count(): the
\* number of groups, one for each distinct tuple, that have more than 2 rows
DuplicateRecords(rows) ==
    Cardinality({r \in Range(rows) :
                    Cardinality({j \in DOMAIN rows : rows[j] = r}) > 2})

\* line 80: the number of NULLs of every column
NullCount(rows) ==
    [c \in Range(mandatory_fields) |->
        Cardinality({i \in DOMAIN rows : rows[i][c] = None})]

\* line 84: filter(col('patient_id').isNotNull())
HasPatientId(r) == r.patient_id # None

\* a variant of the filter below that also drops the rows without an age
DropNullPatientIdOrAge(rows) ==
    LET Keep(r) == r.patient_id # None /\ r.age # None IN SelectSeq(rows, Keep)

\* line 84: the rows that pass the filter, in order
DropNullPatientId(rows) == SelectSeq(rows, HasPatientId)

\* the k-th smallest of a non-empty sequence of integers
KthSmallest(xs, k) ==
    CHOOSE v \in Range(xs) :
        /\ Cardinality({i \in DOMAIN xs : xs[i] < v}) < k
        /\ k <= Cardinality({i \in DOMAIN xs : xs[i] <= v})

\* line 86: agg(median('age')) over the rows with an age: None on no row, else
\* the exact median as a double (twice its value): the middle value, or the
\* mean of the two middle values
AgeMedian(rows) ==
    LET HasAge(r) == r.age # None
        with == SelectSeq(rows, HasAge)
        xs == [i \in DOMAIN with |-> with[i].age[1]]
        n == Len(xs)
    IN IF n = 0 THEN None
       ELSE Some(KthSmallest(xs, (n - 1) \div 2 + 1) + KthSmallest(xs, n \div 2 + 1))

\* line 87: fillna({'age': age_median}): coalesce(age, cast(age_median as int))
FillAge(rows, twice) ==
    [i \in DOMAIN rows |->
        IF rows[i].age = None
        THEN [rows[i] EXCEPT !.age = Some(CastDoubleToInt(twice))]
        ELSE rows[i]]

\* line 90: the rows sort(desc('diagnosis_date')).first() may return: any row
\* holding the largest non-null diagnosis_date (the order of ties is not fixed)
LatestRows(rows) ==
    {i \in DOMAIN rows :
        /\ rows[i].diagnosis_date # None
        /\ \A j \in DOMAIN rows :
              rows[j].diagnosis_date # None
                  => rows[j].diagnosis_date[1] <= rows[i].diagnosis_date[1]}

\* line 90: first()[0] is the first column of that row: patient_id
LatestDate(row) == row.patient_id

\* line 91: fillna({'diagnosis_date': latest_date}):
\* coalesce(diagnosis_date, cast(latest_date as timestamp))
FillDiagnosisDate(rows, latest_date) ==
    [i \in DOMAIN rows |->
        IF rows[i].diagnosis_date = None
        THEN [rows[i] EXCEPT !.diagnosis_date = CastStringToTimestamp(latest_date[1])]
        ELSE rows[i]]

NoReport == [missing_columns |-> <<>>, duplicate_records |-> 0,
             columns_with_null_count |-> [c \in Range(mandatory_fields) |-> 0]]

\* the choices of first() at line 90 for a frame (0: there is no row to pick)
PickChoices(df) ==
    LET kept == DropNullPatientId(Coerce(df.rows))
    IN IF LatestRows(kept) = {} THEN {0} ELSE LatestRows(kept)

\* lines 51-102; pick is the row first() returns at line 90.  The result is
\* the exception raised (exc, "" when none) and the returned pair.
data_quality_check(df, pick) ==
    LET missing == FirstMissing(df.columns)
        cast == Coerce(df.rows)
        duplicate_records == DuplicateRecords(cast)
        null_count == NullCount(cast)
        kept == DropNullPatientId(cast)
        age_median == AgeMedian(kept)
        aged == FillAge(kept, age_median[1])
        cleaning_report ==
            [missing_columns |-> <<>>, duplicate_records |-> duplicate_records,
             columns_with_null_count |-> null_count]
    IN IF missing # None
         THEN [exc |-> "ValueError", df |-> <<>>, report |-> NoReport]
       ELSE IF age_median = None
         THEN [exc |-> "IllegalArgumentException", df |-> <<>>, report |-> NoReport]
       ELSE IF LatestRows(aged) = {}
         THEN [exc |-> "TypeError", df |-> <<>>, report |-> NoReport]
       ELSE [exc |-> "",
             df |-> FillDiagnosisDate(aged, LatestDate(aged[pick])),
             report |-> cleaning_report]

----------------------------------------------------------------------------
(* The aggregations.  Each returns the exception it raises ("" when none)   *)
(* and the documents it saves.  The sort each ends with orders the frame    *)
(* that is written; a collection keeps no order, so a result is a bag.      *)

\* the number of rows of a gender: what decides whether pivot makes its column
CountGender(rows, g) == Cardinality({i \in DOMAIN rows : rows[i].gender = Some(g)})

\* round(m / f, 2) in hundredths (HALF_UP); NULL when a pivot cell is NULL,
\* which is what count() under pivot leaves for an empty cell
Ratio(m, f) == IF m = 0 \/ f = 0 THEN None ELSE Some((200 * m + f) \div (2 * f))

\* lines 122-124: groupBy('diagnosis_code').pivot('gender').count() and
\* select(col('M') / col('F')): the columns M and F exist only when some row
\* has that gender
disease_gender_ratio(rows) ==
    LET codes == {rows[i].diagnosis_code : i \in DOMAIN rows}
        Of(c, g) == Cardinality({i \in DOMAIN rows :
                        rows[i].diagnosis_code = c /\ rows[i].gender = Some(g)})
    IN IF CountGender(rows, "M") = 0 \/ CountGender(rows, "F") = 0
       THEN [exc |-> "AnalysisException", docs |-> EmptyBag]
       ELSE [exc |-> "",
             docs |-> SetToBag({[diagnosis_code |-> c, ratio |-> Ratio(Of(c, "M"), Of(c, "F"))]
                                  : c \in codes})]

\* lines 150-152: groupBy(diagnosis_description as disease).agg(count('*')).sort(desc('count'))
most_common_diseases(rows) ==
    LET diseases == {rows[i].diagnosis_description : i \in DOMAIN rows}
        Of(d) == Cardinality({i \in DOMAIN rows : rows[i].diagnosis_description = d})
    IN [exc |-> "", docs |-> SetToBag({[disease |-> d, count |-> Of(d)] : d \in diseases})]

\* a variant of the chain below whose last range starts after 71
age_group_shifted(age) ==
    IF age = None THEN "minors"
    ELSE IF age[1] >= 30 /\ age[1] <= 40 THEN "30-40"
    ELSE IF age[1] >= 41 /\ age[1] <= 50 THEN "41-50"
    ELSE IF age[1] >= 51 /\ age[1] <= 60 THEN "51-60"
    ELSE IF age[1] >= 61 /\ age[1] <= 70 THEN "61-70"
    ELSE IF age[1] > 71 THEN "70+"
    ELSE "minors"

\* lines 183-188: the when chain; a NULL age fails every comparison
age_group(age) ==
    IF age = None THEN "minors"
    ELSE IF age[1] >= 30 /\ age[1] <= 40 THEN "30-40"
    ELSE IF age[1] >= 41 /\ age[1] <= 50 THEN "41-50"
    ELSE IF age[1] >= 51 /\ age[1] <= 60 THEN "51-60"
    ELSE IF age[1] >= 61 /\ age[1] <= 70 THEN "61-70"
    ELSE IF age[1] >= 71 THEN "70+"
    ELSE "minors"

\* lines 181-190: withColumn(age_group).groupBy(age_group, description, code).count()
age_category(rows) ==
    LET Key(r) == [age_group |-> age_group(r.age),
                   diagnosis_description |-> r.diagnosis_description,
                   diagnosis_code |-> r.diagnosis_code]
        keys == {Key(rows[i]) : i \in DOMAIN rows}
        Of(k) == Cardinality({i \in DOMAIN rows : Key(rows[i]) = k})
    IN [exc |-> "",
        docs |-> SetToBag({[age_group |-> k.age_group,
                            diagnosis_description |-> k.diagnosis_description,
                            diagnosis_code |-> k.diagnosis_code,
                            count |-> Of(k)] : k \in keys})]

\* lines 218-223: one document per row
senior_citizen_flag(rows) ==
    LET Flag(r) == IF r.age # None /\ r.age[1] >= 60 THEN "Y" ELSE "N"
    IN [exc |-> "",
        docs |-> SeqToBag([i \in DOMAIN rows |->
                    [patient_id |-> rows[i].patient_id, age |-> rows[i].age,
                     gender |-> rows[i].gender,
                     diagnosis_description |-> rows[i].diagnosis_description,
                     senior_citizen_flag |-> Flag(rows[i])]])]

\* dayofweek of a timestamp held in days since 1970-01-01, a Thursday (Sunday is 1)
dayofweek(cell) == IF cell = None THEN None ELSE Some(((cell[1] + 4) % 7) + 1)

NoFile == [columns |-> {}, rows |-> <<>>, present |-> FALSE]

File(columns, rows) == [columns |-> columns, rows |-> rows, present |-> TRUE]

\* the rows a CSV read yields: a cell of a column the file does not have is NULL
RowsOf(file) ==
    [i \in DOMAIN file.rows |->
        [c \in Range(mandatory_fields) |->
            IF c \in file.columns THEN file.rows[i][c] ELSE None]]

\* the files the glob file_path + "*csv" matches, in name order
Listing(dir) ==
    LET Less(a, b) == \E k \in 1..8 : (\A j \in 1..(k - 1) : a[j] = b[j]) /\ a[k] < b[k]
        RECURSIVE Sorted(_)
        Sorted(S) ==
            IF S = {} THEN <<>>
            ELSE LET m == CHOOSE a \in S : \A b \in S \ {a} : Less(a, b)
                 IN <<m>> \o Sorted(S \ {m})
    IN Sorted(DOMAIN dir)

RECURSIVE Concat(_)
Concat(ss) == IF ss = <<>> THEN <<>> ELSE Head(ss) \o Concat(Tail(ss))

\* lines 251-262: every file of the directory is read, uncleaned; the header of
\* the first one gives the schema
disease_trend_over_the_week(dir) ==
    LET names == Listing(dir)
        rows == Concat([i \in DOMAIN names |-> RowsOf(dir[names[i]])])
        Key(r) == [diagnosis_description |-> r.diagnosis_description,
                   dayofweek |-> dayofweek(r.diagnosis_date)]
        keys == {Key(rows[i]) : i \in DOMAIN rows}
        Of(k) == Cardinality({i \in DOMAIN rows : Key(rows[i]) = k})
    IN IF \/ names = <<>>
          \/ {"diagnosis_description", "diagnosis_date"} \ dir[names[1]].columns # {}
       THEN [exc |-> "AnalysisException", docs |-> EmptyBag]
       ELSE [exc |-> "",
             docs |-> SetToBag({[diagnosis_description |-> k.diagnosis_description,
                                 dayofweek |-> k.dayofweek, count |-> Of(k)] : k \in keys})]

\* lines 272-289: one document, the report
save_cleaning_report(cleaning_report) == SetToBag({cleaning_report})

----------------------------------------------------------------------------
(* The date cursor: file_date is a string of eight digits, %Y%m%d. *)

IsLeap(y) == y % 4 = 0 /\ (y % 100 # 0 \/ y % 400 = 0)

DaysInMonth(y, m) ==
    IF m = 2 THEN (IF IsLeap(y) THEN 29 ELSE 28)
    ELSE IF m \in {4, 6, 9, 11} THEN 30 ELSE 31

\* datetime.strptime(s, '%Y%m%d')
strptime(s) ==
    [year |-> 1000 * s[1] + 100 * s[2] + 10 * s[3] + s[4],
     month |-> 10 * s[5] + s[6],
     day |-> 10 * s[7] + s[8]]

\* datetime.strftime(d, '%Y%m%d')
strftime(d) ==
    <<(d.year \div 1000) % 10, (d.year \div 100) % 10, (d.year \div 10) % 10, d.year % 10,
      d.month \div 10, d.month % 10, d.day \div 10, d.day % 10>>

RECURSIVE DaysBeforeMonth(_, _)
DaysBeforeMonth(y, m) == IF m = 1 THEN 0 ELSE DaysBeforeMonth(y, m - 1) + DaysInMonth(y, m - 1)

\* datetime's proleptic Gregorian ordinal of a date (1 is 0001-01-01)
ymd2ord(d) ==
    LET y == d.year - 1
    IN y * 365 + y \div 4 - y \div 100 + y \div 400 + DaysBeforeMonth(d.year, d.month) + d.day

\* datetime's date of an ordinal
ord2ymd(ordinal) ==
    LET n0 == ordinal - 1
        n400 == n0 \div 146097
        r400 == n0 % 146097
        n100 == r400 \div 36524
        r100 == r400 % 36524
        n4 == r100 \div 1461
        r4 == r100 % 1461
        n1 == r4 \div 365
        r1 == r4 % 365
        year == n400 * 400 + 1 + n100 * 100 + n4 * 4 + n1
        month == CHOOSE m \in 1..12 :
                    /\ DaysBeforeMonth(year, m) <= r1
                    /\ r1 < DaysBeforeMonth(year, m) + DaysInMonth(year, m)
    IN IF n1 = 4 \/ n100 = 4 THEN [year |-> year - 1, month |-> 12, day |-> 31]
       ELSE [year |-> year, month |-> month, day |-> r1 - DaysBeforeMonth(year, month) + 1]

\* a variant of the step below that adds one to the day field
NextProcessingDateNaive(file_date) ==
    LET d == strptime(file_date) IN strftime([d EXCEPT !.day = d.day + 1])

\* lines 294-297: strptime(file_date) + timedelta(days=1), formatted back
NextProcessingDate(file_date) == strftime(ord2ymd(ymd2ord(strptime(file_date)) + 1))

\* lines 13-16: the file the cursor names (file_path and the fixed parts of the
\* name are the same for every date, so the date stands for the path)
get_date_filepath(cfg) == cfg

----------------------------------------------------------------------------
(* The script: one action per statement of the try block (lines 303-323).   *)
(* An exception anywhere leaves the try block: the except block prints it,  *)
(* the finally block stops Spark and the process ends.                      *)

Collections ==
    {collection_name, "cleaning_report", "disease_gender_ratio_data",
     "most_common_diseases_data", "age_category_data", "senior_citizen_flag_data",
     "disease_trend_over_the_week_data"}

NoDF == [columns |-> {}, rows |-> <<>>]

quality_data_df == list_info[1]

\* a variant of the save below that replaces the collection
MongoOverwrite(store, c, docs) == [store EXCEPT ![c] = docs]

\* .format('mongo').mode('append').save(): the documents are added to the collection
MongoAppend(store, c, docs) == [store EXCEPT ![c] = @ (+) docs]

Save(c, docs) ==
    /\ db' = MongoAppend(db, c, docs)
    /\ writes' = [writes EXCEPT ![c] = Append(@, [file_date |-> config, docs |-> docs])]

\* lines 316-323: except and finally
Raise(e) ==
    /\ pc' = "idle"
    /\ exc_type' = e
    /\ UNCHANGED <<runs, config, config_file, files, db, writes, raw_data_df, list_info>>

\* an aggregation and its save: its own exception, or the save fails, or it is saved
WriteStep(c, result, next) ==
    IF result.exc # "" THEN Raise(result.exc)
    ELSE \/ /\ Save(c, result.docs)
            /\ pc' = next
            /\ UNCHANGED <<runs, config, config_file, files, raw_data_df, list_info, exc_type>>
         \/ Raise("Py4JJavaError")

\* lines 8-9: the script starts and reads config.properties
Start ==
    /\ pc = "idle"
    /\ runs < MaxRuns
    /\ pc' = "read"
    /\ runs' = runs + 1
    /\ config' = config_file
    /\ raw_data_df' = NoDF
    /\ list_info' = <<>>
    /\ exc_type' = ""
    /\ UNCHANGED <<config_file, files, db, writes>>

\* line 304 (lines 31-48)
read_and_save_raw_data ==
    /\ pc = "read"
    /\ LET path == get_date_filepath(config)
       IN IF path \notin DOMAIN files THEN Raise("AnalysisException")
          ELSE LET df == [columns |-> files[path].columns, rows |-> RowsOf(files[path])]
               IN \/ /\ Save(collection_name, SeqToBag(df.rows))
                     /\ raw_data_df' = df
                     /\ pc' = "dq"
                     /\ UNCHANGED <<runs, config, config_file, files, list_info, exc_type>>
                  \/ Raise("Py4JJavaError")

\* lines 305-306
DataQualityCheck ==
    /\ pc = "dq"
    /\ \E pick \in PickChoices(raw_data_df) :
          LET res == data_quality_check(raw_data_df, pick)
          IN IF res.exc # "" THEN Raise(res.exc)
             ELSE /\ list_info' = <<res.df, res.report>>
                  /\ pc' = "report"
                  /\ UNCHANGED <<runs, config, config_file, files, db, writes, raw_data_df,
                                 exc_type>>

\* line 308
SaveCleaningReport ==
    /\ pc = "report"
    /\ WriteStep("cleaning_report",
                 [exc |-> "", docs |-> save_cleaning_report(list_info[2])], "ratio")

\* line 309
DiseaseGenderRatio ==
    /\ pc = "ratio"
    /\ WriteStep("disease_gender_ratio_data", disease_gender_ratio(quality_data_df), "common")

\* a variant of the step below that passes the raw frame
MostCommonDiseasesOfRaw ==
    /\ pc = "common"
    /\ WriteStep("most_common_diseases_data", most_common_diseases(Coerce(raw_data_df.rows)),
                 "agecat")

\* line 310
MostCommonDiseases ==
    /\ pc = "common"
    /\ WriteStep("most_common_diseases_data", most_common_diseases(quality_data_df), "agecat")

\* line 311
AgeCategory ==
    /\ pc = "agecat"
    /\ WriteStep("age_category_data", age_category(quality_data_df), "senior")

\* line 312
SeniorCitizenFlag ==
    /\ pc = "senior"
    /\ WriteStep("senior_citizen_flag_data", senior_citizen_flag(quality_data_df), "trend")

\* line 313
DiseaseTrendOverTheWeek ==
    /\ pc = "trend"
    /\ WriteStep("disease_trend_over_the_week_data", disease_trend_over_the_week(files), "date")

\* line 314 (lines 293-300): the cursor is set in memory and the file rewritten
save_processing_date_info ==
    /\ pc = "date"
    /\ config' = NextProcessingDate(config)
    /\ config_file' = NextProcessingDate(config)
    /\ pc' = "idle"
    /\ UNCHANGED <<runs, files, db, writes, raw_data_df, list_info, exc_type>>

Next ==
    \/ Start
    \/ read_and_save_raw_data
    \/ DataQualityCheck
    \/ SaveCleaningReport
    \/ DiseaseGenderRatio
    \/ MostCommonDiseases
    \/ AgeCategory
    \/ SeniorCitizenFlag
    \/ DiseaseTrendOverTheWeek
    \/ save_processing_date_info

----------------------------------------------------------------------------
(* Inputs.  A DataFrame has no row order of its own, so the tables of an     *)
(* initial state are enumerated up to the order of their rows.               *)

\* the non-decreasing sequences of length n over 1..m
RECURSIVE SortedSeqs(_, _)
SortedSeqs(n, m) ==
    IF n = 0 THEN {<<>>}
    ELSE UNION {{Append(s, k) : s \in SortedSeqs(n - 1, k)} : k \in 1..m}

\* the tables of at most maxlen rows taken from the list universe
Tables(universe, maxlen) ==
    {[i \in DOMAIN s |-> universe[s[i]]] :
        s \in UNION {SortedSeqs(n, Len(universe)) : n \in 0..maxlen}}

AllColumns == Range(mandatory_fields)

EmptyStore == [c \in Collections |-> EmptyBag]

NoWrites == [c \in Collections |-> <<>>]

\* rows of the extracts of the whole script's runs
FileRows ==
    <<Row(Some("P1"), Some(650), Some("M"), Some("C1"), Some("D1"), Some(19539)),
      Row(Some("P2"), Some(305), Some("F"), Some("C1"), Some("D1"), Some(19540)),
      Row(None, Some(400), Some("F"), Some("C2"), Some("D2"), Some(19539)),
      Row(Some("P3"), None, Some("M"), Some("C2"), Some("D2"), None)>>

\* the extract of the first date: any table, or one that lacks a mandatory column
FirstFiles ==
    {File(AllColumns, t) : t \in Tables(FileRows, MaxFileRows)}
        \cup {File(AllColumns \ {c}, <<FileRows[1], FileRows[2]>>) : c \in AllColumns}

\* the extract of the day after
SecondFiles ==
    {File(AllColumns, <<FileRows[1], FileRows[2]>>),
     File(AllColumns, <<FileRows[2], FileRows[3]>>),
     File(AllColumns \ {"age"}, <<FileRows[1]>>)}

\* cursors before a month end, a leap day, a century February and a year end
StartDates ==
    {<<2, 0, 2, 3, 0, 4, 2, 9>>, <<2, 0, 2, 4, 0, 2, 2, 8>>, <<2, 1, 0, 0, 0, 2, 2, 7>>,
     <<2, 0, 2, 3, 1, 2, 3, 0>>}

\* the day after a date, by the calendar: the name of the next day's extract,
\* and what the cursor is compared with
CalendarNextDay(s) ==
    LET d == strptime(s)
    IN IF d.day < DaysInMonth(d.year, d.month)
         THEN strftime([d EXCEPT !.day = d.day + 1])
       ELSE IF d.month < 12
         THEN strftime([d EXCEPT !.month = d.month + 1, !.day = 1])
       ELSE strftime([year |-> d.year + 1, month |-> 1, day |-> 1])

Directory(start, f0, f1) ==
    LET next == CalendarNextDay(start)
    IN [k \in (IF f0.present THEN {start} ELSE {}) \cup (IF f1.present THEN {next} ELSE {})
          |-> IF k = start THEN f0 ELSE f1]

Init ==
    /\ pc = "idle"
    /\ runs = 0
    /\ config_file \in StartDates
    /\ config = config_file
    /\ \E f0 \in FirstFiles \cup {NoFile}, f1 \in SecondFiles \cup {NoFile} :
          files = Directory(config_file, f0, f1)
    /\ db = EmptyStore
    /\ writes = NoWrites
    /\ raw_data_df = NoDF
    /\ list_info = <<>>
    /\ exc_type = ""

Spec == Init /\ [][Next]_vars

(* data_quality_check alone: the script stands before line 305 with the raw  *)
(* frame read and saved.                                                     *)

DQRows ==
    <<Row(None, Some(300), Some("M"), Some("C1"), Some("D1"), None),
      Row(None, Some(300), Some("M"), Some("C1"), Some("D1"), Some(19539)),
      Row(Some("P1"), Some(300), Some("M"), Some("C1"), Some("D1"), None),
      Row(Some("P1"), Some(300), Some("M"), Some("C1"), Some("D1"), Some(19539)),
      Row(Some("P1"), Some(300), Some("M"), Some("C1"), Some("D1"), Some(19540)),
      Row(Some("2023"), Some(300), Some("M"), Some("C1"), Some("D1"), None),
      Row(Some("2023"), Some(300), Some("M"), Some("C1"), Some("D1"), Some(19540)),
      Row(Some("P1"), None, Some("M"), Some("C1"), Some("D1"), Some(19539)),
      Row(Some("P1"), Some(305), Some("M"), Some("C1"), Some("D1"), Some(19539)),
      Row(Some("P1"), Some(410), Some("M"), Some("C1"), Some("D1"), Some(19539))>>

DQDate == <<2, 0, 2, 3, 0, 7, 0, 1>>

\* the first run has read the extract of DQDate, whose rows are given
AfterRead(rows) ==
    /\ runs = 1
    /\ config_file = DQDate
    /\ config = DQDate
    /\ files = [k \in {DQDate} |-> File(AllColumns, rows)]
    /\ raw_data_df = [columns |-> AllColumns, rows |-> rows]
    /\ exc_type = ""

AfterRawSave(rows) ==
    /\ AfterRead(rows)
    /\ db = MongoAppend(EmptyStore, collection_name, SeqToBag(rows))
    /\ writes = [NoWrites EXCEPT ![collection_name] =
                    <<[file_date |-> DQDate, docs |-> SeqToBag(rows)]>>]

InitDQ ==
    /\ pc = "dq"
    /\ list_info = <<>>
    /\ \E rows \in Tables(DQRows, MaxRowsDQ) : AfterRawSave(rows)

NextDQ == DataQualityCheck

SpecDQ == InitDQ /\ [][NextDQ]_vars

(* The aggregations over the cleaned table alone: the script stands before   *)
(* line 309 with the frame cleaned and the report saved.                     *)

AggRows ==
    <<Row(Some("P1"), Some(290), Some("M"), Some("C1"), Some("D1"), Some(19539)),
      Row(Some("P1"), Some(299), Some("F"), Some("C1"), Some("D1"), Some(19539)),
      Row(Some("P1"), Some(400), Some("M"), Some("C1"), Some("D1"), Some(19539)),
      Row(Some("P1"), Some(410), Some("F"), Some("C1"), Some("D1"), Some(19539)),
      Row(Some("P1"), Some(600), Some("M"), Some("C1"), Some("D1"), Some(19539)),
      Row(Some("P1"), Some(710), Some("F"), Some("C1"), Some("D1"), Some(19539)),
      Row(Some("P2"), Some(400), Some("M"), Some("C1"), Some("D2"), Some(19539)),
      Row(Some("P2"), Some(400), Some("M"), Some("C2"), Some("D3"), Some(19539)),
      Row(Some("P2"), Some(400), Some("F"), Some("C2"), Some("D4"), Some(19539))>>

InitAgg ==
    /\ pc = "ratio"
    /\ \E rows \in Tables(AggRows, MaxRowsAgg) :
          /\ AfterRead(rows)
          /\ \E pick \in PickChoices([columns |-> AllColumns, rows |-> rows]) :
                LET res == data_quality_check([columns |-> AllColumns, rows |-> rows], pick)
                    report == save_cleaning_report(res.report)
                IN /\ res.exc = ""
                   /\ list_info = <<res.df, res.report>>
                   /\ db = MongoAppend(MongoAppend(EmptyStore, collection_name, SeqToBag(rows)),
                                       "cleaning_report", report)
                   /\ writes = [NoWrites EXCEPT
                                   ![collection_name] = <<[file_date |-> DQDate, docs |-> SeqToBag(rows)]>>,
                                   !["cleaning_report"] = <<[file_date |-> DQDate, docs |-> report]>>]

NextAgg ==
    \/ DiseaseGenderRatio
    \/ MostCommonDiseases
    \/ AgeCategory
    \/ SeniorCitizenFlag

SpecAgg == InitAgg /\ [][NextAgg]_vars

----------------------------------------------------------------------------
(* The claims. *)

\* the sum of the count fields of the documents of a bag
RECURSIVE SumCounts(_, _)
SumCounts(bag, S) ==
    IF S = {} THEN 0
    ELSE LET x == CHOOSE y \in S : TRUE IN x.count * bag[x] + SumCounts(bag, S \ {x})

TotalCount(bag) == SumCounts(bag, DOMAIN bag)

Batches(c) == Range(writes[c])

\* C1: the cursor of config.properties changes only in the last statement of a
\* run, which every failing step skips, and there it becomes the calendar day
\* after the date of the file the run read (month and year ends included); the
\* next invocation reads the file the cursor names.
C1_CursorAdvancesOnlyOnSuccess ==
    [][/\ pc = "date" =>
              /\ config_file' = CalendarNextDay(config)
              /\ pc' = "idle"
              /\ exc_type' = ""
       /\ pc # "date" => config_file' = config_file
       /\ exc_type' # "" => config_file' = config_file
       /\ pc' = "read" => get_date_filepath(config') = config_file]_vars

\* a second successful run has carried the cursor over the end of the year
C1_Witness ==
    /\ pc = "idle"
    /\ runs = 2
    /\ exc_type = ""
    /\ config_file = <<2, 0, 2, 4, 0, 1, 0, 1>>

\* C2: while the frame read lacks one of the six mandatory columns, the only
\* step the run takes is to fail with the schema error (ValueError): no cleaned
\* table is returned, no collection is written and the cursor stays.
C2_MissingColumnFailsRun ==
    [][(pc \notin {"idle", "read"} /\ AllColumns \ raw_data_df.columns # {}) =>
          /\ pc' = "idle"
          /\ exc_type' = "ValueError"
          /\ list_info' = <<>>
          /\ db' = db
          /\ config_file' = config_file]_vars

\* a run on an extract without a mandatory column has ended in the schema error
\* with only the raw rows saved
C2_Witness ==
    /\ pc = "idle"
    /\ exc_type = "ValueError"
    /\ AllColumns \ raw_data_df.columns # {}
    /\ writes[collection_name] # <<>>
    /\ \A c \in Collections \ {collection_name} : db[c] = EmptyBag

\* C3: every collection holds exactly the documents of all the batches saved
\* to it, each as often as the batches hold it; two batches saved to one
\* collection for the same file_date hold the same documents, so the collection
\* holds them at least twice.
C3_AppendOnly ==
    \A c \in Collections :
        /\ \A b \in Batches(c) : DOMAIN b.docs \subseteq DOMAIN db[c]
        /\ \A doc \in DOMAIN db[c] :
              LET copies == [i \in DOMAIN writes[c] |-> CopiesIn(doc, writes[c][i].docs)]
              IN CopiesIn(doc, db[c]) = SumOver(copies, DOMAIN copies)
        /\ \A i, j \in DOMAIN writes[c] :
              (i < j /\ writes[c][i].file_date = writes[c][j].file_date) =>
                  /\ writes[c][j].docs = writes[c][i].docs
                  /\ \A doc \in DOMAIN writes[c][i].docs :
                        CopiesIn(doc, db[c]) >= 2 * CopiesIn(doc, writes[c][i].docs)

\* a failed run was repeated on the same file: the raw collection holds two
\* batches of that date, and they are not empty
C3_Witness ==
    /\ Len(writes[collection_name]) = 2
    /\ writes[collection_name][1].file_date = writes[collection_name][2].file_date
    /\ writes[collection_name][1].docs # EmptyBag

\* the type-coerced input of data_quality_check, and its rows with a patient_id
CoercedInput ==
    [i \in DOMAIN raw_data_df.rows |->
        LET r == raw_data_df.rows[i]
        IN [r EXCEPT !.age = IF r.age = None THEN None ELSE Some(r.age[1] \div 10)]]

InputWithId == SelectSeq(CoercedInput, LAMBDA r : r.patient_id # None)

\* the largest diagnosis_date among the given rows that have one
MaxDate(rows) ==
    LET dates == {rows[i].diagnosis_date[1] : i \in {k \in DOMAIN rows : rows[k].diagnosis_date # None}}
    IN CHOOSE d \in dates : \A e \in dates : e <= d

\* C4: in the cleaned table every row whose diagnosis_date was missing holds
\* the largest diagnosis_date among the rows that have one, and the rows that had
\* a diagnosis_date keep it.
C4_DateImputedWithMax ==
    pc = "report" =>
        /\ Len(quality_data_df) = Len(InputWithId)
        /\ \A i \in DOMAIN InputWithId :
              quality_data_df[i].diagnosis_date =
                  IF InputWithId[i].diagnosis_date = None
                  THEN Some(MaxDate(InputWithId))
                  ELSE InputWithId[i].diagnosis_date

\* twice the median of the ages present among the given rows
RECURSIVE SortInts(_)
SortInts(B) ==
    IF B = EmptyBag THEN <<>>
    ELSE LET m == CHOOSE x \in DOMAIN B : \A y \in DOMAIN B : x <= y
         IN <<m>> \o SortInts(B (-) SetToBag({m}))

TwiceMedianAge(rows) ==
    LET present == SelectSeq(rows, LAMBDA r : r.age # None)
        sorted == SortInts(SeqToBag([i \in DOMAIN present |-> present[i].age[1]]))
        n == Len(sorted)
    IN sorted[(n + 1) \div 2] + sorted[(n + 2) \div 2]

\* C5: data_quality_check returns a cleaned table for every input that has a
\* row with a patient_id, all ages missing included; in it no age is missing,
\* every row whose age was missing holds the median of the ages that were
\* present, and the other rows keep theirs.
C5_AgeImputedWithMedian ==
    /\ (pc = "idle" /\ InputWithId # <<>>) => exc_type # "IllegalArgumentException"
    /\ pc = "report" =>
          /\ Len(quality_data_df) = Len(InputWithId)
          /\ \A i \in DOMAIN InputWithId :
                /\ quality_data_df[i].age # None
                /\ InputWithId[i].age # None => quality_data_df[i].age = InputWithId[i].age
                /\ InputWithId[i].age = None =>
                      2 * quality_data_df[i].age[1] = TwiceMedianAge(InputWithId)

\* C6: the cleaned table is the input without its rows that lack a patient_id:
\* it has no row without a patient_id, and its rows are the input rows that have
\* one, one for one (duplicates included), with their patient_id, gender,
\* diagnosis_code and diagnosis_description, their age when they had one and
\* their diagnosis_date when they had one.
C6_DropsExactlyMissingPatientId ==
    pc = "report" =>
        /\ \A i \in DOMAIN quality_data_df : quality_data_df[i].patient_id # None
        /\ Len(quality_data_df) = Len(InputWithId)
        /\ \A i \in DOMAIN InputWithId :
              /\ \A c \in {"patient_id", "gender", "diagnosis_code", "diagnosis_description"} :
                    quality_data_df[i][c] = InputWithId[i][c]
              /\ InputWithId[i].age # None => quality_data_df[i].age = InputWithId[i].age
              /\ InputWithId[i].diagnosis_date # None =>
                    quality_data_df[i].diagnosis_date = InputWithId[i].diagnosis_date

\* a cleaned table was returned for an input with a row without a patient_id, a
\* row without an age and two equal rows
C6_Witness ==
    /\ pc = "report"
    /\ \E i \in DOMAIN CoercedInput : CoercedInput[i].patient_id = None
    /\ \E i \in DOMAIN InputWithId : InputWithId[i].age = None
    /\ \E i, j \in DOMAIN InputWithId : i # j /\ InputWithId[i] = InputWithId[j]

\* C7 as stated: duplicate_records is the number of rows of the coerced input
\* whose six-column tuple occurs more than 2 times.
C7_CountsRows ==
    pc = "report" =>
        list_info[2].duplicate_records =
            Cardinality({i \in DOMAIN CoercedInput :
                Cardinality({j \in DOMAIN CoercedInput : CoercedInput[j] = CoercedInput[i]}) > 2})

\* C7 amended: duplicate_records is the number of distinct six-column tuples
\* that occur more than 2 times in the coerced input, rows without a patient_id
\* included.
C7_CountsDistinctTuples ==
    pc = "report" =>
        list_info[2].duplicate_records =
            Cardinality({CoercedInput[i] : i \in
                {k \in DOMAIN CoercedInput :
                    Cardinality({j \in DOMAIN CoercedInput : CoercedInput[j] = CoercedInput[k]}) > 2}})

\* a report counts one tuple, of rows without a patient_id, that occurs three times
C7_Witness ==
    /\ pc = "report"
    /\ list_info[2].duplicate_records = 1
    /\ Cardinality({i \in DOMAIN CoercedInput : CoercedInput[i].patient_id = None}) = 3
    /\ Len(InputWithId) = 1

\* the rows of the file of a date that have a patient_id, and all its rows
FileRowsWithId(date) == SelectSeq(RowsOf(files[date]), LAMBDA r : r.patient_id # None)

AllFileRows == Concat([i \in DOMAIN Listing(files) |-> RowsOf(files[Listing(files)[i]])])

\* what the four aggregations over the cleaned table save for the file of a date
FourOverCleanedTable ==
    /\ \A b \in Batches("disease_gender_ratio_data") :
          {d.diagnosis_code : d \in DOMAIN b.docs} =
              {r.diagnosis_code : r \in Range(FileRowsWithId(b.file_date))}
    /\ \A b \in Batches("most_common_diseases_data") :
          /\ TotalCount(b.docs) = Len(FileRowsWithId(b.file_date))
          /\ {d.disease : d \in DOMAIN b.docs} =
                {r.diagnosis_description : r \in Range(FileRowsWithId(b.file_date))}
    /\ \A b \in Batches("age_category_data") :
          TotalCount(b.docs) = Len(FileRowsWithId(b.file_date))
    /\ \A b \in Batches("senior_citizen_flag_data") :
          /\ BagSize(b.docs) = Len(FileRowsWithId(b.file_date))
          /\ {d.patient_id : d \in DOMAIN b.docs} =
                {r.patient_id : r \in Range(FileRowsWithId(b.file_date))}

\* C8 as stated: all five aggregations count the rows of the cleaned table of
\* the current run's file and no other row; the cleaned table is not changed
\* by them.
C8_FiveOverCleanedTable ==
    /\ FourOverCleanedTable
    /\ \A b \in Batches("disease_trend_over_the_week_data") :
          TotalCount(b.docs) = Len(FileRowsWithId(b.file_date))

\* C8 amended: disease_gender_ratio, most_common_diseases, age_category and
\* senior_citizen_flag count the rows of the cleaned table of the current run's
\* file and no other row; disease_trend_over_the_week counts every row of every
\* file of the directory, rows without a patient_id included; the cleaned table
\* is not changed by any of them.
C8_FourOverCleanedTable ==
    /\ [](/\ FourOverCleanedTable
          /\ \A b \in Batches("disease_trend_over_the_week_data") :
                TotalCount(b.docs) = Len(AllFileRows))
    /\ [][(pc \in {"ratio", "common", "agecat", "senior", "trend"}) => (list_info' = list_info)]_vars

\* a run has saved all five aggregates for a file with a row that cleaning
\* dropped, beside another file
C8_Witness ==
    /\ pc = "date"
    /\ Len(FileRowsWithId(config)) < Len(files[config].rows)
    /\ Cardinality(DOMAIN files) = 2
    /\ writes["disease_trend_over_the_week_data"] # <<>>

\* C9: the documents most_common_diseases saves are at most 3, one for each
\* diagnosis_description among them, and no description left out has more rows
\* than one that is saved; each count is the number of rows of its description.
C9_TopThree ==
    \A b \in Batches("most_common_diseases_data") :
        LET Rows(d) == Cardinality({i \in DOMAIN quality_data_df :
                            quality_data_df[i].diagnosis_description = d})
            saved == {d.disease : d \in DOMAIN b.docs}
            all == {quality_data_df[i].diagnosis_description : i \in DOMAIN quality_data_df}
        IN /\ BagSize(b.docs) <= 3
           /\ BagSize(b.docs) = Cardinality(saved)
           /\ \A d \in DOMAIN b.docs : d.count = Rows(d.disease)
           /\ saved \subseteq all
           /\ \A d \in saved, e \in all \ saved : Rows(e) <= Rows(d)

\* the age group of an integer age, by the ranges of the claim
GroupOfAge(a) ==
    IF a \in 30..40 THEN "30-40"
    ELSE IF a \in 41..50 THEN "41-50"
    ELSE IF a \in 51..60 THEN "51-60"
    ELSE IF a \in 61..70 THEN "61-70"
    ELSE IF a >= 71 THEN "70+"
    ELSE "minors"

\* C10: the when chain gives every integer age the group of its range, and the
\* documents age_category saves are one for each (age_group, description, code)
\* that occurs in the cleaned table, with the number of rows that have it as
\* count, so that the counts sum to the number of rows.
C10_AgeGroupsPartition ==
    /\ \A a \in (0 - 1)..130 : age_group(Some(a)) = GroupOfAge(a)
    /\ \A b \in Batches("age_category_data") :
          LET Has(r, d) == /\ d.age_group = GroupOfAge(r.age[1])
                           /\ d.diagnosis_description = r.diagnosis_description
                           /\ d.diagnosis_code = r.diagnosis_code
          IN /\ \A i \in DOMAIN quality_data_df :
                   Cardinality({d \in DOMAIN b.docs : Has(quality_data_df[i], d)}) = 1
             /\ \A d \in DOMAIN b.docs :
                   /\ CopiesIn(d, b.docs) = 1
                   /\ d.count = Cardinality({i \in DOMAIN quality_data_df :
                                                Has(quality_data_df[i], d)})
                   /\ d.count > 0
             /\ TotalCount(b.docs) = Len(quality_data_df)

\* age_category has saved the groups of a table with a row aged 29, a row aged
\* 40 and a row aged 71
C10_Witness ==
    /\ pc = "senior"
    /\ \E b \in Batches("age_category_data") :
          {"minors", "30-40", "70+"} \subseteq {d.age_group : d \in DOMAIN b.docs}
    /\ \E i \in DOMAIN quality_data_df : quality_data_df[i].age = Some(71)

====
